---- MODULE Spec2Model ----
(***************************************************************************)
(* Trashure (src/src/App.jsx): the account ledger of the recycling app.    *)
(*                                                                         *)
(* The authoritative store is the Firebase Realtime Database: one record   *)
(* users/<uid> per account and one list history/<uid> per user.  Every     *)
(* browser tab running App() is a session with its own React state (user,  *)
(* userData, scanResult, capturedImage, currentView).  A session never     *)
(* writes the store directly: set(), push()/set() and runTransaction()     *)
(* queue a write on the session's connection (outbox, sent in order) and   *)
(* return at once; the server later commits or rejects the write.  None    *)
(* of the returned promises is awaited by App.jsx.                         *)
(***************************************************************************)
EXTENDS Integers, Sequences, FiniteSets, TLC

VARIABLES
    accounts,       \* users/<uid> in the store: NoData or an account record
    history,        \* history/<uid> in the store: sequence of ScanRecords
    user,           \* per session: useState user (uid or NULL)
    userData,       \* per session: useState userData (subscribed copy of the account)
    scanResult,     \* per session: useState scanResult (NoResult or predictions)
    capturedImage,  \* per session: useState capturedImage (NULL or "img")
    currentView,    \* per session: useState currentView
    outbox,         \* per session: writes issued and not yet acknowledged, in order
    shown,          \* the message the last step showed: <<session, message>>, or Nothing
    base,           \* per account: its counters when the record was last written whole
    applied,        \* per account: sum of the transaction deltas committed since then
    scans,          \* number of confirmRecycle calls that issued writes
    leaderboard     \* per session: useState leaderboard (the list last emitted)

vars == <<accounts, history, user, userData, scanResult, capturedImage,
          currentView, outbox, shown, base, applied, scans, leaderboard>>

NULL == "null"

\* No alert, error message or unhandled rejection in this step.
Nothing == <<NULL, "">>

\* A snapshot of users/<uid> with no value (snapshot.val() is null).
NoData == [exists |-> FALSE, points |-> 0, coins |-> 0, scanCount |-> 0]

\* scanResult: null, or the array of predictions (which may be empty).
NoResult == [present |-> FALSE, predictions |-> <<>>]
Result(p) == [present |-> TRUE, predictions |-> p]

Users == {"u1"}
Sessions == {"s1", "s2"}
\* currentView's values (App.jsx:476, 548, 637, 674).
Views == {"home", "scan", "leaderboard", "wallet"}

\* Bounds of the model.
MaxInitScans == 10   \* scans already confirmed on an account that exists at start
MaxScans == 1        \* confirmRecycle calls that issue writes during a run

\* confirmRecycle's reward (App.jsx:292-293).
POINTS == 10
COINS == 5

\* VOUCHERS (App.jsx:46-51): id -> cost.
VoucherIds == {"v1", "v2", "v3", "v4"}
VoucherCost(v) ==
    CASE v = "v1" -> 50
      [] v = "v2" -> 150
      [] v = "v3" -> 500
      [] v = "v4" -> 1000

\* ScanRecord written by confirmRecycle (App.jsx:311-317).
ScanRecord(item) ==
    [itemName |-> item, category |-> "Recyclable", pointsAwarded |-> POINTS]

\* newUserData (App.jsx:160-167): the counters of a freshly created account.
NewUserData == [exists |-> TRUE, points |-> 0, coins |-> 0, scanCount |-> 0]

\* An account on which n scans were confirmed and nothing was redeemed.
AccountAfter(n) ==
    [exists |-> TRUE, points |-> n * POINTS, coins |-> n * COINS, scanCount |-> n]

ZeroDelta == [points |-> 0, coins |-> 0, scanCount |-> 0]

\* The classifier's answers (model.classify, App.jsx:266): its top candidates.
\* MobileNet always returns candidates; an empty list is an input only a direct
\* caller can produce.
Classified == {<<"bottle">>}
Predictions == Classified \cup {<<>>}

\* A credit that adds the points and the coins and leaves scanCount alone.
CreditUpdateNoCount(currentData) ==
    IF currentData.exists
    THEN [exists |-> TRUE,
          points |-> currentData.points + POINTS,
          coins |-> currentData.coins + COINS,
          scanCount |-> currentData.scanCount]
    ELSE currentData

\* Update function of confirmRecycle's runTransaction (App.jsx:298-305).
CreditUpdate(currentData) ==
    IF currentData.exists
    THEN [exists |-> TRUE,
          points |-> currentData.points + POINTS,
          coins |-> currentData.coins + COINS,
          scanCount |-> currentData.scanCount + 1]
    ELSE currentData

\* Update function of redeemVoucher's runTransaction (App.jsx:336-341).
DebitUpdate(currentData, cost) ==
    IF currentData.exists
    THEN [currentData EXCEPT !.coins = @ - cost]
    ELSE currentData

\* redeemVoucher's pre-check, negated (App.jsx:329): the session's copy affords it.
CanRedeem(data, cost) == data.exists /\ data.coins >= cost

\* The writes a session can have in flight.
SetWrite(u) == [kind |-> "set", uid |-> u, cost |-> 0, item |-> ""]
CreditWrite(u) == [kind |-> "credit", uid |-> u, cost |-> 0, item |-> ""]
DebitWrite(u, c) == [kind |-> "debit", uid |-> u, cost |-> c, item |-> ""]
HistoryWrite(u, i) == [kind |-> "hist", uid |-> u, cost |-> 0, item |-> i]

\* What one write makes of the account record it is applied to.
ApplyWrite(w, data) ==
    CASE w.kind = "set" -> NewUserData
      [] w.kind = "credit" -> CreditUpdate(data)
      [] w.kind = "debit" -> DebitUpdate(data, w.cost)
      [] OTHER -> data

RECURSIVE ApplyAll(_, _)
ApplyAll(ws, data) ==
    IF ws = <<>> THEN data ELSE ApplyAll(Tail(ws), ApplyWrite(Head(ws), data))

\* The value the session's onValue listener is called with: the store's record
\* with the session's own unacknowledged writes applied on top of it.
LocalView(s) == ApplyAll(outbox[s], accounts[user[s]])

HasPending(s, kind) == \E i \in 1..Len(outbox[s]) : outbox[s][i].kind = kind

Init ==
    /\ accounts \in [Users -> {NoData, AccountAfter(MaxInitScans)}]
    /\ history = [u \in Users |->
                    IF ~accounts[u].exists THEN <<>>
                    ELSE [i \in 1..MaxInitScans |-> ScanRecord("bottle")]]
    /\ user = [s \in Sessions |-> NULL]
    /\ userData = [s \in Sessions |-> NoData]
    /\ scanResult = [s \in Sessions |-> NoResult]
    /\ capturedImage = [s \in Sessions |-> NULL]
    /\ currentView = [s \in Sessions |-> "home"]
    /\ outbox = [s \in Sessions |-> <<>>]
    /\ shown = Nothing
    /\ base = accounts
    /\ applied = [u \in Users |-> ZeroDelta]
    /\ scans = 0
    /\ leaderboard = [s \in Sessions |-> <<>>]

\* onAuthStateChanged callback with a signed-in user (App.jsx:150-173): the
\* session subscribes to users/<uid>. A session signs in once; signing out and
\* in again as another user is outside the ledger's claims.
AuthStateChanged(s, u) ==
    /\ user[s] = NULL
    /\ user' = [user EXCEPT ![s] = u]
    /\ shown' = Nothing
    /\ UNCHANGED <<accounts, history, userData, scanResult, capturedImage,
                   currentView, outbox, base, applied, scans, leaderboard>>

\* onValue(userRef) callback (App.jsx:155-171): adopt the record, or create it
\* with a blind set() when the snapshot is empty.
Snapshot(s) ==
    /\ user[s] # NULL
    /\ LET data == LocalView(s) IN
         IF data.exists
         THEN /\ userData' = [userData EXCEPT ![s] = data]
              /\ UNCHANGED outbox
         ELSE /\ outbox' = [outbox EXCEPT ![s] = Append(@, SetWrite(user[s]))]
              /\ userData' = [userData EXCEPT ![s] = NewUserData]
    /\ shown' = Nothing
    /\ UNCHANGED <<accounts, history, user, scanResult, capturedImage,
                   currentView, base, applied, scans, leaderboard>>

\* The navigation buttons (App.jsx:500, 510, 716-746).
SetCurrentView(s, v) ==
    /\ user[s] # NULL
    /\ v # currentView[s]
    /\ currentView' = [currentView EXCEPT ![s] = v]
    /\ shown' = Nothing
    /\ UNCHANGED <<accounts, history, user, userData, scanResult, capturedImage,
                   outbox, base, applied, scans, leaderboard>>

\* handleCapture (App.jsx:245-279): capture the frame and classify it; the
\* video element it needs is rendered only in the scan view with no captured
\* image.
HandleCapture(s, predictions) ==
    /\ user[s] # NULL
    /\ currentView[s] = "scan"
    /\ capturedImage[s] = NULL
    /\ capturedImage' = [capturedImage EXCEPT ![s] = "img"]
    /\ scanResult' = [scanResult EXCEPT ![s] = Result(predictions)]
    /\ shown' = Nothing
    /\ UNCHANGED <<accounts, history, user, userData, currentView,
                   outbox, base, applied, scans, leaderboard>>

\* The Retake button (App.jsx:604-613).
Retake(s) ==
    /\ currentView[s] = "scan"
    /\ capturedImage[s] # NULL
    /\ capturedImage' = [capturedImage EXCEPT ![s] = NULL]
    /\ scanResult' = [scanResult EXCEPT ![s] = NoResult]
    /\ shown' = Nothing
    /\ UNCHANGED <<accounts, history, user, userData, currentView,
                   outbox, base, applied, scans, leaderboard>>

\* confirmRecycle's guard (App.jsx:286): no signed-in user or no scan result.
\* An empty array is truthy in JavaScript, so Result(<<>>) passes this guard.
ConfirmGuardFails(s) == user[s] = NULL \/ ~scanResult[s].present

\* The two writes confirmRecycle issues (App.jsx:297-317), in order.
ConfirmWrites(s) ==
    <<CreditWrite(user[s]), HistoryWrite(user[s], scanResult[s].predictions[1])>>

\* confirmRecycle with the transaction started before the scan result is
\* validated: the guard only stops the history write.
ConfirmRecycleCreditFirst(s) ==
    IF user[s] # NULL /\ (~scanResult[s].present \/ scanResult[s].predictions = <<>>)
    THEN /\ outbox' = [outbox EXCEPT ![s] = Append(@, CreditWrite(user[s]))]
         /\ shown' = <<s, "User or scanResult is null">>
         /\ UNCHANGED <<accounts, history, user, userData, scanResult, capturedImage,
                        currentView, base, applied, scans, leaderboard>>
    ELSE /\ shown' = <<s, "User or scanResult is null">>
         /\ UNCHANGED <<accounts, history, user, userData, scanResult, capturedImage,
                        currentView, outbox, base, applied, scans, leaderboard>>

\* confirmRecycle (App.jsx:281-326).
ConfirmRecycle(s) ==
    IF ConfirmGuardFails(s)
    THEN \* App.jsx:286-289: console.error and return
         /\ shown' = <<s, "User or scanResult is null">>
         /\ UNCHANGED <<accounts, history, user, userData, scanResult, capturedImage,
                        currentView, outbox, base, applied, scans, leaderboard>>
    ELSE IF scanResult[s].predictions = <<>>
    THEN \* App.jsx:291: scanResult[0].className throws, before the try block
         /\ shown' = <<s, "TypeError">>
         /\ UNCHANGED <<accounts, history, user, userData, scanResult, capturedImage,
                        currentView, outbox, base, applied, scans, leaderboard>>
    ELSE \* App.jsx:295-322: issue both writes without awaiting them, then advance
         /\ scans < MaxScans
         /\ outbox' = [outbox EXCEPT ![s] = @ \o ConfirmWrites(s)]
         /\ userData' = [userData EXCEPT ![s] = CreditUpdate(@)]
         /\ capturedImage' = [capturedImage EXCEPT ![s] = NULL]
         /\ scanResult' = [scanResult EXCEPT ![s] = NoResult]
         /\ currentView' = [currentView EXCEPT ![s] = "home"]
         /\ scans' = scans + 1
         /\ shown' = Nothing
         /\ UNCHANGED <<accounts, history, user, base, applied, leaderboard>>

\* redeemVoucher with the return of line 331 missing: the alert is shown and
\* the transaction is issued all the same.
RedeemVoucherNoReturn(s, v, ok) ==
    /\ user[s] # NULL
    /\ outbox' = [outbox EXCEPT ![s] = Append(@, DebitWrite(user[s], VoucherCost(v)))]
    /\ userData' = [userData EXCEPT ![s] = DebitUpdate(@, VoucherCost(v))]
    /\ shown' = <<s, IF CanRedeem(userData[s], VoucherCost(v))
                     THEN "Voucher Redeemed!" ELSE "Not enough coins!">>
    /\ UNCHANGED <<accounts, history, user, scanResult, capturedImage,
                   currentView, base, applied, scans, leaderboard>>

\* redeemVoucher (App.jsx:328-344); ok is the answer to the confirm() dialog.
RedeemVoucher(s, v, ok) ==
    IF ~CanRedeem(userData[s], VoucherCost(v))
    THEN \* App.jsx:329-332
         /\ shown' = <<s, "Not enough coins!">>
         /\ UNCHANGED <<accounts, history, user, userData, scanResult, capturedImage,
                        currentView, outbox, base, applied, scans, leaderboard>>
    ELSE IF ok
    THEN \* App.jsx:334-343
         /\ outbox' = [outbox EXCEPT ![s] = Append(@, DebitWrite(user[s], VoucherCost(v)))]
         /\ userData' = [userData EXCEPT ![s] = DebitUpdate(@, VoucherCost(v))]
         /\ shown' = <<s, "Voucher Redeemed!">>
         /\ UNCHANGED <<accounts, history, user, scanResult, capturedImage,
                        currentView, base, applied, scans, leaderboard>>
    ELSE \* the dialog was dismissed
         /\ shown' = Nothing
         /\ UNCHANGED <<accounts, history, user, userData, scanResult, capturedImage,
                        currentView, outbox, base, applied, scans, leaderboard>>

\* The delta a committed transaction adds to the account it finds.
DeltaOf(w, data) ==
    IF ~data.exists THEN ZeroDelta
    ELSE CASE w.kind = "credit" -> [points |-> POINTS, coins |-> COINS, scanCount |-> 1]
           [] w.kind = "debit" -> [points |-> 0, coins |-> 0 - w.cost, scanCount |-> 0]
           [] OTHER -> ZeroDelta

Plus(a, d) ==
    [points |-> a.points + d.points, coins |-> a.coins + d.coins,
     scanCount |-> a.scanCount + d.scanCount]

\* A read-then-set in place of the transaction: the session writes back the
\* value it computed from its own copy of the account.
TransactFromCopy(s, w) ==
    IF userData[s].exists THEN userData[s] ELSE ApplyWrite(w, accounts[w.uid])

\* The record a committed runTransaction of session s leaves: its update
\* function applied to the store's current value (App.jsx:298, 336).
Transact(s, w) == ApplyWrite(w, accounts[w.uid])

\* The server commits the set() of account creation (App.jsx:168).
CommitSet(s) ==
    /\ outbox[s] # <<>>
    /\ Head(outbox[s]).kind = "set"
    /\ LET u == Head(outbox[s]).uid IN
         /\ accounts' = [accounts EXCEPT ![u] = NewUserData]
         /\ base' = [base EXCEPT ![u] = NewUserData]
         /\ applied' = [applied EXCEPT ![u] = ZeroDelta]
    /\ outbox' = [outbox EXCEPT ![s] = Tail(@)]
    /\ shown' = Nothing
    /\ UNCHANGED <<history, user, userData, scanResult, capturedImage,
                   currentView, scans, leaderboard>>

\* The server commits the transaction of confirmRecycle (App.jsx:298-305).
CommitCredit(s) ==
    /\ outbox[s] # <<>>
    /\ Head(outbox[s]).kind = "credit"
    /\ LET w == Head(outbox[s]) IN
         /\ accounts' = [accounts EXCEPT ![w.uid] = Transact(s, w)]
         /\ applied' = [applied EXCEPT ![w.uid] = Plus(@, DeltaOf(w, accounts[w.uid]))]
    /\ outbox' = [outbox EXCEPT ![s] = Tail(@)]
    /\ shown' = Nothing
    /\ UNCHANGED <<history, user, userData, scanResult, capturedImage,
                   currentView, base, scans, leaderboard>>

\* The server commits the transaction of redeemVoucher (App.jsx:336-341).
CommitDebit(s) ==
    /\ outbox[s] # <<>>
    /\ Head(outbox[s]).kind = "debit"
    /\ LET w == Head(outbox[s]) IN
         /\ accounts' = [accounts EXCEPT ![w.uid] = Transact(s, w)]
         /\ applied' = [applied EXCEPT ![w.uid] = Plus(@, DeltaOf(w, accounts[w.uid]))]
    /\ outbox' = [outbox EXCEPT ![s] = Tail(@)]
    /\ shown' = Nothing
    /\ UNCHANGED <<history, user, userData, scanResult, capturedImage,
                   currentView, base, scans, leaderboard>>

\* The server commits the history record of confirmRecycle (App.jsx:309-317).
CommitHistory(s) ==
    /\ outbox[s] # <<>>
    /\ Head(outbox[s]).kind = "hist"
    /\ LET w == Head(outbox[s]) IN
         history' = [history EXCEPT ![w.uid] = Append(@, ScanRecord(w.item))]
    /\ outbox' = [outbox EXCEPT ![s] = Tail(@)]
    /\ shown' = Nothing
    /\ UNCHANGED <<accounts, user, userData, scanResult, capturedImage,
                   currentView, base, applied, scans, leaderboard>>

\* The server rejects a write. No promise of set() or runTransaction() is
\* awaited or given a handler (App.jsx:168, 298, 311, 336), so the rejection
\* reaches no catch block: it is an unhandled rejection.
FailWrite(s) ==
    /\ outbox[s] # <<>>
    /\ outbox' = [outbox EXCEPT ![s] = Tail(@)]
    /\ shown' = <<s, "Unhandled rejection">>
    /\ UNCHANGED <<accounts, history, user, userData, scanResult, capturedImage,
                   currentView, base, applied, scans, leaderboard>>

\* The "Confirm & Collect" button (App.jsx:614-620): rendered for a signed-in
\* user (450) in the scan view (548) once an image is captured (586, 602), and
\* disabled while scanResult is null (616).
ConfirmButton(s) ==
    /\ user[s] # NULL
    /\ currentView[s] = "scan"
    /\ capturedImage[s] # NULL
    /\ scanResult[s].present

\* A voucher's "Claim" button (App.jsx:698-704): rendered for a signed-in user
\* (450) in the wallet view (674), disabled on the session's copy of the balance.
ClaimButton(s, v) ==
    /\ user[s] # NULL
    /\ currentView[s] = "wallet"
    /\ ~(~userData[s].exists \/ userData[s].coins < VoucherCost(v))

ClickConfirm(s) == ConfirmButton(s) /\ ConfirmRecycle(s)

ClickClaim(s, v, ok) == ClaimButton(s, v) /\ RedeemVoucher(s, v, ok)

\* The program as its user interface drives it, in every open session.
Next ==
    \/ \E s \in Sessions, u \in Users : AuthStateChanged(s, u)
    \/ \E s \in Sessions : Snapshot(s)
    \/ \E s \in Sessions, v \in Views : SetCurrentView(s, v)
    \/ \E s \in Sessions, p \in Classified : HandleCapture(s, p)
    \/ \E s \in Sessions : Retake(s)
    \/ \E s \in Sessions : ClickConfirm(s)
    \/ \E s \in Sessions, v \in VoucherIds, ok \in BOOLEAN : ClickClaim(s, v, ok)
    \/ \E s \in Sessions : CommitSet(s)
    \/ \E s \in Sessions : CommitCredit(s)
    \/ \E s \in Sessions : CommitDebit(s)
    \/ \E s \in Sessions : CommitHistory(s)
    \/ \E s \in Sessions : FailWrite(s)

Spec == Init /\ [][Next]_vars

\* confirmRecycle and redeemVoucher called as functions, in any state of one
\* session, whatever the buttons allow.
Caller == "s1"

NextCalls ==
    \/ \E u \in Users : AuthStateChanged(Caller, u)
    \/ Snapshot(Caller)
    \/ \E v \in Views : SetCurrentView(Caller, v)
    \/ \E p \in Predictions : HandleCapture(Caller, p)
    \/ Retake(Caller)
    \/ ConfirmRecycle(Caller)
    \/ \E v \in VoucherIds, ok \in BOOLEAN : RedeemVoucher(Caller, v, ok)
    \/ CommitSet(Caller)
    \/ CommitCredit(Caller)
    \/ CommitDebit(Caller)
    \/ CommitHistory(Caller)
    \/ FailWrite(Caller)

SpecCalls == Init /\ [][NextCalls]_vars

(***************************************************************************)
(* The leaderboard: every signed-in session listens to the whole users     *)
(* node and keeps the best accounts of each snapshot (App.jsx:197-208).    *)
(***************************************************************************)

\* The keys of the users node, in the order snapshot.forEach visits them.
Uids == <<"u1", "u2", "u3", "u4", "u5", "u6", "u7", "u8", "u9",
          "ua", "ub", "uc", "ud">>

\* Bounds of the model.
MaxUsers == 11   \* keys of the users node
MaxLow == 2      \* accounts with no scan in a store at start

\* users.slice(0, 10) (App.jsx:207).
BoardSize == 10

BoardUsers == {Uids[i] : i \in 1..MaxUsers}

\* childSnapshot.val() of users/<uid> (App.jsx:204).
Child(u, data) ==
    [uid |-> u, points |-> data.points, coins |-> data.coins,
     scanCount |-> data.scanCount]

\* The snapshot of the users node a session's listener is called with: the
\* store's records, the session's own unacknowledged writes applied to them.
UsersSnapshot(s) ==
    [u \in DOMAIN accounts |-> IF u = user[s] THEN LocalView(s) ELSE accounts[u]]

\* snapshot.forEach (App.jsx:203-205): the existing children, in key order.
ForEach(snapshot) ==
    LET keys == SelectSeq(Uids, LAMBDA u : u \in DOMAIN snapshot /\ snapshot[u].exists)
    IN  [i \in 1..Len(keys) |-> Child(keys[i], snapshot[keys[i]])]

\* A comparator that orders by points ascending.
CompareAscending(a, b) == a.points - b.points

\* The comparator of users.sort (App.jsx:206); a comes first when negative.
Compare(a, b) == b.points - a.points

\* Array.prototype.sort is stable: x, which followed every element of sorted
\* in the input, is placed after the elements it does not precede.
RECURSIVE Insert(_, _)
Insert(x, sorted) ==
    IF sorted = <<>> THEN <<x>>
    ELSE IF Compare(x, Head(sorted)) < 0 THEN <<x>> \o sorted
    ELSE <<Head(sorted)>> \o Insert(x, Tail(sorted))

RECURSIVE Sort(_)
Sort(users) ==
    IF users = <<>> THEN <<>>
    ELSE Insert(users[Len(users)], Sort(SubSeq(users, 1, Len(users) - 1)))

\* Array.prototype.slice(0, n).
Slice(users, n) == SubSeq(users, 1, IF Len(users) < n THEN Len(users) ELSE n)

\* The list the listener keeps of a snapshot (App.jsx:202-207).
TopOf(snapshot) == Slice(Sort(ForEach(snapshot)), BoardSize)

\* onValue(usersRef) callback (App.jsx:201-208); the listener is registered
\* only for a signed-in user (App.jsx:198). A call that sets the list the
\* session already holds changes nothing and is no step.
LeaderboardListener(s) ==
    /\ user[s] # NULL
    /\ shown' = Nothing
    /\ UNCHANGED <<accounts, history, user, userData, scanResult, capturedImage,
                   currentView, outbox, base, applied, scans>>
    /\ LET users == TopOf(UsersSnapshot(s)) IN
         /\ users # leaderboard[s]
         /\ leaderboard' = [leaderboard EXCEPT ![s] = users]

\* A store of MaxUsers keys: the first low keys hold accounts with no scan, the
\* keys up to all hold accounts with one scan, the rest hold no account. The
\* accounts with fewer points come first in key order.
BoardAccounts(low, all) ==
    [u \in BoardUsers |->
        LET i == CHOOSE n \in 1..MaxUsers : Uids[n] = u IN
        IF i <= low THEN AccountAfter(0)
        ELSE IF i <= all THEN AccountAfter(1)
        ELSE NoData]

InitBoard ==
    /\ \E all \in (MaxUsers - 2)..MaxUsers : \E low \in 0..MaxLow :
           accounts = BoardAccounts(low, all)
    /\ history = [u \in BoardUsers |->
                    [i \in 1..accounts[u].scanCount |-> ScanRecord("bottle")]]
    /\ user = [s \in Sessions |-> NULL]
    /\ userData = [s \in Sessions |-> NoData]
    /\ scanResult = [s \in Sessions |-> NoResult]
    /\ capturedImage = [s \in Sessions |-> NULL]
    /\ currentView = [s \in Sessions |-> "home"]
    /\ outbox = [s \in Sessions |-> <<>>]
    /\ shown = Nothing
    /\ base = accounts
    /\ applied = [u \in BoardUsers |-> ZeroDelta]
    /\ scans = 0
    /\ leaderboard = [s \in Sessions |-> <<>>]

\* One session signs in as any account of the store, scans, and listens to the
\* users node. It opens no view but the scanner, and no account of this store
\* can afford a voucher.
NextBoard ==
    \/ \E u \in BoardUsers : AuthStateChanged(Caller, u)
    \/ Snapshot(Caller)
    \/ SetCurrentView(Caller, "scan")
    \/ \E p \in Classified : HandleCapture(Caller, p)
    \/ ClickConfirm(Caller)
    \/ CommitSet(Caller)
    \/ CommitCredit(Caller)
    \/ CommitHistory(Caller)
    \/ FailWrite(Caller)
    \/ LeaderboardListener(Caller)

SpecBoard == InitBoard /\ [][NextBoard]_vars

(***************************************************************************)
(* The claims.                                                             *)
(***************************************************************************)

\* C1: in every reachable state of the store, every account has coins >= 0,
\* whatever the interleaving of confirmRecycle and redeemVoucher from the
\* sessions of one user, each deciding on its own copy of the account.
C1_CoinsNeverNegative == \A u \in Users : accounts[u].coins >= 0

\* Two sessions each have a redemption in flight against the same account; each
\* cost is affordable from the current balance and the two together are not.
JointOverdraw(s, t) ==
    /\ s # t
    /\ outbox[s] # <<>> /\ Head(outbox[s]).kind = "debit"
    /\ outbox[t] # <<>> /\ Head(outbox[t]).kind = "debit"
    /\ Head(outbox[s]).uid = Head(outbox[t]).uid
    /\ LET a == accounts[Head(outbox[s]).uid] IN
         /\ a.exists
         /\ Head(outbox[s]).cost <= a.coins
         /\ Head(outbox[t]).cost <= a.coins
         /\ Head(outbox[s]).cost + Head(outbox[t]).cost > a.coins

\* C2: of two concurrent redemptions that jointly overdraw the balance, once
\* one has committed its decrement the other is rejected: its check is made on
\* the authoritative balance at the commit, so its transaction decrements
\* nothing.
C2_SecondRedemptionRejected ==
    [][\A s, t \in Sessions :
          (JointOverdraw(s, t) /\ CommitDebit(s))
          => LET w == Head(outbox[t]) IN
               ApplyWrite(w, accounts'[w.uid]) = accounts'[w.uid]]_vars

C4_ConfirmCreditsExactly ==
    [][\A s \in Sessions :
          CommitCredit(s)
          => LET u == Head(outbox[s]).uid IN
               /\ accounts'[u].exists
               /\ accounts'[u].points = accounts[u].points + POINTS
               /\ accounts'[u].coins = accounts[u].coins + COINS
               /\ accounts'[u].scanCount = accounts[u].scanCount + 1]_vars

\* C5: a redemption's transaction decrements coins, by exactly the cost, if and
\* only if the authoritative coins are >= the cost at the instant it commits;
\* otherwise it leaves the account as it is.
C5_DecrementIffAffordableAtCommit ==
    [][\A s \in Sessions :
          CommitDebit(s)
          => LET w == Head(outbox[s])
                 a == accounts[w.uid]
             IN  a.exists
                 => IF a.coins >= w.cost
                    THEN accounts'[w.uid] = [a EXCEPT !.coins = @ - w.cost]
                    ELSE accounts'[w.uid] = a]_vars

\* C6: a redemption rejected for insufficient funds changes no state: the call
\* shows "Not enough coins!" and leaves the accounts, the history, the session's
\* copy of the account and its writes in flight as they were.
C6_RejectedRedeemChangesNothing ==
    [][\A s \in Sessions, v \in VoucherIds, ok \in BOOLEAN :
          (RedeemVoucher(s, v, ok) /\ ~CanRedeem(userData[s], VoucherCost(v)))
          => /\ shown' = <<s, "Not enough coins!">>
             /\ UNCHANGED <<accounts, history, userData, outbox>>]_vars

\* C6's case: the account holds 5 coins and a redemption has just been
\* rejected; the 50-coin voucher is the cheapest.
C6_Witness ==
    /\ shown = <<Caller, "Not enough coins!">>
    /\ user[Caller] # NULL
    /\ accounts[user[Caller]].exists
    /\ accounts[user[Caller]].coins = COINS
    /\ userData[Caller].coins = COINS

\* C7: account creation is idempotent: the set() of the create-if-absent step
\* never changes the record of an account that already exists.
C7_CreationNeverOverwrites ==
    [][\A s \in Sessions :
          CommitSet(s)
          => LET u == Head(outbox[s]).uid IN
               accounts[u].exists => accounts'[u] = accounts[u]]_vars

\* C8: points never decrease: no step takes the points of an existing account
\* to a smaller value.
C8_PointsNeverDecrease ==
    [][\A u \in Users :
          accounts[u].exists
          => accounts'[u].exists /\ accounts'[u].points >= accounts[u].points]_vars

\* C9: confirmRecycle called with no signed-in user, or with an absent or empty
\* scan result, reports an error and changes neither the accounts nor the
\* history, and issues no write.
C9_RejectedConfirmIsNoOp ==
    [][\A s \in Sessions :
          (/\ ConfirmRecycle(s)
           /\ \/ user[s] = NULL
              \/ ~scanResult[s].present
              \/ scanResult[s].predictions = <<>>)
          => /\ shown' \in {<<s, "User or scanResult is null">>, <<s, "TypeError">>}
             /\ UNCHANGED <<accounts, history, outbox>>]_vars

\* C9's case: a signed-in user confirmed a scan whose result is the empty list,
\* and the call ended in the error.
C9_Witness ==
    /\ shown = <<Caller, "TypeError">>
    /\ user[Caller] # NULL
    /\ scanResult[Caller] = Result(<<>>)

\* C10: the view leaves the confirm step (captured image and scan result
\* cleared, view set to home) only after both ledger writes are acknowledged:
\* no confirmRecycle step clears the scan state while a write it issued is
\* still in flight.
C10_AdvanceOnlyAfterAck ==
    [][\A s \in Sessions :
          ConfirmRecycle(s)
          => ~(/\ HasPending(s, "credit")' \/ HasPending(s, "hist")'
               /\ currentView'[s] = "home"
               /\ capturedImage'[s] = NULL
               /\ ~scanResult'[s].present)]_vars

\* The accounts a snapshot of the users node holds.
Existing(snapshot) == {u \in DOMAIN snapshot : snapshot[u].exists}

InBoard(board, u) == \E i \in 1..Len(board) : board[i].uid = u

\* board lists, each once and with the points the snapshot gives it, the
\* min(BoardSize, number of accounts) accounts of the snapshot that have the
\* most points, by points descending.
IsTopOf(board, snapshot) ==
    LET held == Existing(snapshot) IN
    /\ Len(board) = IF Cardinality(held) < BoardSize
                    THEN Cardinality(held) ELSE BoardSize
    /\ \A i \in 1..Len(board) :
         /\ board[i].uid \in held
         /\ board[i].points = snapshot[board[i].uid].points
    /\ \A i, j \in 1..Len(board) :
         i < j => board[i].uid # board[j].uid /\ board[i].points >= board[j].points
    /\ \A u \in held :
         ~InBoard(board, u) =>
            \A i \in 1..Len(board) : board[i].points >= snapshot[u].points

\* C11: every leaderboard emitted to a signed-in session is recomputed from the
\* whole users node it is called with: it holds exactly the min(10, number of
\* accounts) accounts with the most points, ordered by points descending; for
\* a session with no write of its own in flight that node is the committed
\* store, so an account a committed credit moved into the best 10 is listed.
C11_LeaderboardIsTop ==
    [][\A s \in Sessions :
          LeaderboardListener(s) =>
             LET snapshot == UsersSnapshot(s) IN
             /\ IsTopOf(leaderboard'[s], snapshot)
             /\ outbox[s] = <<>> => snapshot = accounts']_vars

\* A store of more than BoardSize accounts; the session's account was outside
\* the best BoardSize when it was written, its credit is committed, and the
\* list emitted since holds it in place of an account it now outscores.
C11_Witness ==
    \E s \in Sessions :
        /\ user[s] # NULL
        /\ outbox[s] = <<>>
        /\ Cardinality(Existing(accounts)) > BoardSize
        /\ applied[user[s]].points = POINTS
        /\ ~InBoard(TopOf(base), user[s])
        /\ leaderboard[s] = TopOf(accounts)
        /\ InBoard(leaderboard[s], user[s])
        /\ \E v \in Existing(accounts) :
             /\ InBoard(TopOf(base), v)
             /\ ~InBoard(leaderboard[s], v)
             /\ accounts[v].points < accounts[user[s]].points

\* C12: credit and history stay paired: in every state with no write in
\* flight, each account's scanCount equals the number of ScanRecords in its
\* user's history, whatever the interleaving of the sessions and whichever
\* single write the server rejects.
C12_CreditAndHistoryPaired ==
    (\A s \in Sessions : outbox[s] = <<>>) =>
        \A u \in DOMAIN accounts : accounts[u].scanCount = Len(history[u])

\* C13: in every reachable state of the store, every account has
\* points = 10 * scanCount: creation writes both as 0, a confirmed scan adds 10
\* and 1 in one transaction, and a redemption changes only the coins.
C13_PointsAreTenPerScan ==
    \A u \in DOMAIN accounts :
        accounts[u].exists => accounts[u].points = POINTS * accounts[u].scanCount

\* An account on which a confirmed scan and a redemption have both been
\* committed since it was last written whole.
C13_Witness ==
    \E u \in DOMAIN accounts :
        /\ accounts[u].exists
        /\ applied[u].scanCount = 1
        /\ applied[u].points = POINTS
        /\ applied[u].coins = COINS - VoucherCost("v1")

====
